---------------------------- MODULE Spec2Model ----------------------------
(***************************************************************************)
(* A model of the DNS server of src/main.rs: the UDP loop of main, the     *)
(* message assembler DnsMessage, and the header, question and answer       *)
(* codecs.  Bytes are naturals in 0..255, byte strings and Vec<u8> are     *)
(* sequences of bytes, a String is the sequence of its UTF-8 bytes.        *)
(***************************************************************************)
EXTENDS Integers, Sequences, FiniteSets, TLC

VARIABLES
    pc,         \* control position of the program (or of the codec call under test)
    buf,        \* the bytes under the Cursor: &buf[0..size] in main
    cursor,     \* Cursor::position()
    message,    \* the DnsMessage `response` of main: header, questions[0], answers[0]
    name,       \* the local Vec `name` of DnsQuestion::read
    input,      \* the value handed to an encoder (codec specifications)
    out,        \* what the encoders returned (codec specifications)
    sent,       \* the datagrams handed to send_to, in order
    eofSeeks    \* the std release: does a failed Cursor::read_exact move to the end

vars == <<pc, buf, cursor, message, name, input, out, sent, eofSeeks>>

---------------------------------------------------------------------------
(* 8-bit arithmetic *)

RECURSIVE BitOr(_, _)
BitOr(a, b) ==
    IF a = 0 THEN b
    ELSE IF b = 0 THEN a
    ELSE (IF a % 2 = 1 \/ b % 2 = 1 THEN 1 ELSE 0) + 2 * BitOr(a \div 2, b \div 2)

RECURSIVE BitAnd(_, _)
BitAnd(a, b) ==
    IF a = 0 \/ b = 0 THEN 0
    ELSE (IF a % 2 = 1 /\ b % 2 = 1 THEN 1 ELSE 0) + 2 * BitAnd(a \div 2, b \div 2)

\* x << k on a u8: the bits shifted out are discarded
Shl8(x, k) == (x * (2 ^ k)) % 256

\* x >> k
Shr(x, k) == x \div (2 ^ k)

\* `b as u8` for a bool
BoolAsU8(b) == IF b THEN 1 ELSE 0

\* `n as u8` for a usize
AsU8(n) == n % 256

\* u16::to_be_bytes, BufMut::put_u16
U16ToBeBytes(n) == <<(n \div 256) % 256, n % 256>>

\* u32::to_be_bytes
U32ToBeBytes(n) ==
    <<(n \div 16777216) % 256, (n \div 65536) % 256, (n \div 256) % 256, n % 256>>

---------------------------------------------------------------------------
(* The enums and their discriminants *)

ResponseCodes ==
    {"NoError", "FormatError", "ServerFailure", "NameError", "NotImplemented", "Refused"}

\* `rcode as u8`
ResponseCodeAsU8(r) ==
    CASE r = "NoError" -> 0
      [] r = "FormatError" -> 1
      [] r = "ServerFailure" -> 2
      [] r = "NameError" -> 3
      [] r = "NotImplemented" -> 4
      [] r = "Refused" -> 5

\* `type as u16`
RecordTypeAsU16(t) ==
    CASE t = "A" -> 1
      [] t = "NS" -> 2
      [] t = "MD" -> 3
      [] t = "MF" -> 4
      [] t = "CNAME" -> 5
      [] t = "SOA" -> 6
      [] t = "MB" -> 7
      [] t = "MG" -> 8
      [] t = "MR" -> 9
      [] t = "NULL" -> 10
      [] t = "WKS" -> 11
      [] t = "PTR" -> 12
      [] t = "HINFO" -> 13
      [] t = "MINFO" -> 14
      [] t = "MX" -> 15
      [] t = "TXT" -> 16

\* `class as u16`
RecordClassAsU16(c) ==
    CASE c = "IN" -> 1
      [] c = "CS" -> 2
      [] c = "CH" -> 3
      [] c = "HS" -> 4

---------------------------------------------------------------------------
(* std::io::Cursor<&[u8]> with byteorder's ReadBytesExt.  A read that      *)
(* finds too few bytes fails with UnexpectedEof; the position then stays   *)
(* (older std) or moves to the end of the slice (newer std).               *)

EofPosition(b, pos, seeks) == IF seeks THEN Len(b) ELSE pos

read_u8(b, pos, seeks) ==
    IF pos < Len(b)
    THEN [ok |-> TRUE, val |-> b[pos + 1], pos |-> pos + 1]
    ELSE [ok |-> FALSE, val |-> 0, pos |-> EofPosition(b, pos, seeks)]

read_u16(b, pos, seeks) ==
    IF pos + 2 <= Len(b)
    THEN [ok |-> TRUE, val |-> b[pos + 1] * 256 + b[pos + 2], pos |-> pos + 2]
    ELSE [ok |-> FALSE, val |-> 0, pos |-> EofPosition(b, pos, seeks)]

---------------------------------------------------------------------------
(* DnsHeader *)

DefaultHeader ==
    [id |-> 0, qr |-> FALSE, opcode |-> 0, aa |-> FALSE, tc |-> FALSE, rd |-> FALSE,
     ra |-> FALSE, z |-> FALSE, rcode |-> "NoError",
     qdcount |-> 0, ancount |-> 0, nscount |-> 0, arcount |-> 0]

HeaderFlags1(h) ==
    BitOr(BitOr(BitOr(BitOr(Shl8(BoolAsU8(h.qr), 7), Shl8(h.opcode, 3)),
                      Shl8(BoolAsU8(h.aa), 2)),
                Shl8(BoolAsU8(h.tc), 1)),
          BoolAsU8(h.rd))

HeaderFlags2(h) ==
    BitOr(BitOr(Shl8(BoolAsU8(h.ra), 7), Shl8(BoolAsU8(h.z), 4)),
          Shl8(ResponseCodeAsU8(h.rcode), 7))

HeaderToBeBytes(h) ==
    U16ToBeBytes(h.id) \o <<HeaderFlags1(h), HeaderFlags2(h)>>
        \o U16ToBeBytes(h.qdcount) \o U16ToBeBytes(h.ancount)
        \o U16ToBeBytes(h.nscount) \o U16ToBeBytes(h.arcount)

\* DnsHeader::read: [ok, header, pos]
HeaderRead(h, b, pos, seeks) ==
    LET id == read_u16(b, pos, seeks)
        flag == read_u8(b, id.pos, seeks)
        opcode == Shr(BitAnd(flag.val, 112), 3)
    IN  IF ~id.ok THEN [ok |-> FALSE, header |-> h, pos |-> id.pos]
        ELSE IF ~flag.ok
        THEN [ok |-> FALSE, header |-> [h EXCEPT !.id = id.val], pos |-> flag.pos]
        ELSE [ok |-> TRUE,
              header |-> [id |-> id.val, qr |-> TRUE, opcode |-> opcode,
                          aa |-> FALSE, tc |-> FALSE,
                          rd |-> BitAnd(flag.val, 1) > 0,
                          ra |-> FALSE, z |-> FALSE,
                          rcode |-> IF opcode = 0 THEN "NoError" ELSE "NotImplemented",
                          qdcount |-> 1, ancount |-> 1, nscount |-> 0, arcount |-> 0],
              pos |-> flag.pos]

---------------------------------------------------------------------------
(* DnsQuestion *)

Dot == 46

MaxLabelLen == 255

DefaultQuestion == [name |-> <<>>, type |-> "A", class |-> "IN"]

\* Result<Vec<u8>>: Ok(bytes), Err(_), or a panic inside the call
Ok(bytes) == [status |-> "Ok", bytes |-> bytes]
Err == [status |-> "Err", bytes |-> <<>>]
Panic == [status |-> "Panic", bytes |-> <<>>]
NoResult == [status |-> "None", bytes |-> <<>>]

\* str::rsplit_once: the text before and after the last occurrence of c
RSplitOnce(s, c) ==
    LET at == {i \in 1..Len(s) : s[i] = c}
    IN  IF at = {} THEN [found |-> FALSE, l1 |-> <<>>, l2 |-> <<>>]
        ELSE LET i == CHOOSE k \in at : \A j \in at : j <= k
             IN  [found |-> TRUE, l1 |-> SubSeq(s, 1, i - 1), l2 |-> SubSeq(s, i + 1, Len(s))]

\* the two length-prefixed labels and the terminator, common to both encoders
TwoLabels(l1, l2) ==
    <<AsU8(Len(l1))>> \o l1 \o <<AsU8(Len(l2))>> \o l2 \o <<0>>

QuestionToBeBytes(q) ==
    LET sp == RSplitOnce(q.name, Dot)
    IN  IF ~sp.found THEN Err
        ELSE IF Len(sp.l1) > MaxLabelLen \/ Len(sp.l2) > MaxLabelLen THEN Err
        ELSE Ok(TwoLabels(sp.l1, sp.l2)
                    \o U16ToBeBytes(RecordTypeAsU16(q.type))
                    \o U16ToBeBytes(RecordClassAsU16(q.class)))

\* Result::unwrap_or(0) on a read
UnwrapOr0(r) == IF r.ok THEN r.val ELSE 0

\* the `for _ in 0..len` of DnsQuestion::read: k times read_u8().unwrap_or(0),
\* each pushed to the name.  The first `got` reads find a byte, the others fail
\* and push 0
ReadLabelBytes(b, pos, nm, k, seeks) ==
    LET avail == IF pos < Len(b) THEN Len(b) - pos ELSE 0
        got == IF k <= avail THEN k ELSE avail
    IN  [pos |-> IF got = k THEN pos + got ELSE EofPosition(b, pos + got, seeks),
         name |-> nm \o SubSeq(b, pos + 1, pos + got) \o [i \in 1..(k - got) |-> 0]]

\* the iteration with buf.set_position(len as u64): the position set absolutely
QuestionReadStepAbsolute(b, s, seeks) ==
    LET l == read_u8(b, s.pos, seeks)
        len == UnwrapOr0(l)
        body == ReadLabelBytes(b, l.pos, s.name, len, seeks)
    IN  IF len = 0 THEN [pos |-> l.pos, name |-> s.name, done |-> TRUE]
        ELSE [pos |-> len, name |-> Append(body.name, 0), done |-> FALSE]

\* one iteration of the `loop` of DnsQuestion::read, from s = [pos, name, done]
QuestionReadStep(b, s, seeks) ==
    LET l == read_u8(b, s.pos, seeks)
        len == UnwrapOr0(l)
        body == ReadLabelBytes(b, l.pos, s.name, len, seeks)
    IN  IF len = 0 THEN [pos |-> l.pos, name |-> s.name, done |-> TRUE]
        ELSE [pos |-> body.pos + len, name |-> Append(body.name, 0), done |-> FALSE]

RECURSIVE QuestionReadLoop(_, _, _)
QuestionReadLoop(b, s, seeks) ==
    IF s.done THEN s ELSE QuestionReadLoop(b, QuestionReadStep(b, s, seeks), seeks)

\* what DnsQuestion::read does after its loop: self.name is not assigned
QuestionReadFinish(q) == [q EXCEPT !.type = "A", !.class = "IN"]

\* DnsQuestion::read: [ok, question, pos]
QuestionRead(q, b, pos, seeks) ==
    LET s == QuestionReadLoop(b, [pos |-> pos, name |-> <<>>, done |-> FALSE], seeks)
    IN  [ok |-> TRUE, question |-> QuestionReadFinish(q), pos |-> s.pos]

---------------------------------------------------------------------------
(* DnsAnswer *)

DefaultAnswer ==
    [name |-> <<>>, type |-> "A", class |-> "IN", ttl |-> 0, length |-> 0, data |-> <<>>]

AnswerToBeBytes(a) ==
    LET sp == RSplitOnce(a.name, Dot)
    IN  IF ~sp.found THEN Err
        ELSE IF Len(sp.l1) > MaxLabelLen \/ Len(sp.l2) > MaxLabelLen THEN Panic
        ELSE Ok(TwoLabels(sp.l1, sp.l2)
                    \o U16ToBeBytes(RecordTypeAsU16(a.type))
                    \o U16ToBeBytes(RecordClassAsU16(a.class))
                    \o U32ToBeBytes(a.ttl)
                    \o U16ToBeBytes(a.length)
                    \o a.data)

\* DnsAnswer::read: reads nothing from the cursor
AnswerRead(a) ==
    [a EXCEPT !.type = "A", !.class = "IN", !.ttl = 60, !.length = 4,
              !.data = <<8, 8, 8, 8>>]

---------------------------------------------------------------------------
(* DnsMessage *)

DefaultMessage ==
    [header |-> DefaultHeader, question |-> DefaultQuestion, answer |-> DefaultAnswer]

\* DnsMessage::to_be_bytes: the unwrap of an Err, or a panic in an encoder, panics
MessageToBeBytes(m) ==
    LET q == QuestionToBeBytes(m.question)
        a == AnswerToBeBytes(m.answer)
    IN  IF q.status # "Ok" \/ a.status # "Ok" THEN Panic
        ELSE Ok(HeaderToBeBytes(m.header) \o q.bytes \o a.bytes)

---------------------------------------------------------------------------
(* main: the socket loop.  One datagram is received, decoded into          *)
(* `response` by DnsMessage::read, encoded by DnsMessage::to_be_bytes and  *)
(* sent.  A panic ends the process; an error of recv_from breaks the loop. *)

MaxSent == 2

\* id=0x1234, flags=0x0100, qdcount=1, then "abc.com" A IN
ScenarioQuery ==
    <<18, 52, 1, 0, 0, 1, 0, 0, 0, 0, 0, 0,
      3, 97, 98, 99, 3, 99, 111, 109, 0, 0, 1, 0, 1>>

\* the datagrams offered to recv_from: every prefix of the query (all the
\* truncations, the empty datagram included) and the query under every flag byte
Datagrams ==
    {SubSeq(ScenarioQuery, 1, n) : n \in 0..Len(ScenarioQuery)}
        \cup {[ScenarioQuery EXCEPT ![3] = f] : f \in 0..255}

Init ==
    /\ pc = "recv"
    /\ buf = <<>>
    /\ cursor = 0
    /\ message = DefaultMessage
    /\ name = <<>>
    /\ input = <<>>
    /\ out = NoResult
    /\ sent = <<>>
    /\ eofSeeks \in BOOLEAN

\* recv_from returns Ok((size, source)); the response is built afresh
Recv ==
    /\ pc = "recv"
    /\ Len(sent) < MaxSent
    /\ \E d \in Datagrams : buf' = d
    /\ cursor' = 0
    /\ message' = DefaultMessage
    /\ pc' = "read_header"
    /\ UNCHANGED <<name, input, out, sent, eofSeeks>>

\* recv_from returns Err: the loop breaks and main returns
RecvError ==
    /\ pc = "recv"
    /\ pc' = "exited"
    /\ UNCHANGED <<buf, cursor, message, name, input, out, sent, eofSeeks>>

\* DnsMessage::read, self.header.read(buf)?; main unwraps the error
ReadHeader ==
    /\ pc = "read_header"
    /\ LET r == HeaderRead(message.header, buf, cursor, eofSeeks)
       IN  /\ message' = [message EXCEPT !.header = r.header]
           /\ cursor' = r.pos
           /\ pc' = IF r.ok THEN "read_question" ELSE "panicked"
    /\ UNCHANGED <<buf, name, input, out, sent, eofSeeks>>

\* DnsMessage::read, the question's read
ReadQuestion ==
    /\ pc = "read_question"
    /\ LET r == QuestionRead(message.question, buf, cursor, eofSeeks)
       IN  /\ message' = [message EXCEPT !.question = r.question]
           /\ cursor' = r.pos
           /\ pc' = IF r.ok THEN "read_answer" ELSE "panicked"
    /\ UNCHANGED <<buf, name, input, out, sent, eofSeeks>>

\* DnsMessage::read, the answer takes the question's name and is filled in
ReadAnswer ==
    /\ pc = "read_answer"
    /\ message' = [message EXCEPT
                     !.answer = AnswerRead([@ EXCEPT !.name = message.question.name])]
    /\ pc' = "to_be_bytes"
    /\ UNCHANGED <<buf, cursor, name, input, out, sent, eofSeeks>>

\* response.to_be_bytes() and send_to(..).expect(..)
Respond ==
    /\ pc = "to_be_bytes"
    /\ LET r == MessageToBeBytes(message)
       IN  \E sendOk \in BOOLEAN :
              IF r.status = "Ok" /\ sendOk
              THEN sent' = Append(sent, r.bytes) /\ pc' = "recv"
              ELSE sent' = sent /\ pc' = "panicked"
    /\ UNCHANGED <<buf, cursor, message, name, input, out, eofSeeks>>

Next == Recv \/ RecvError \/ ReadHeader \/ ReadQuestion \/ ReadAnswer \/ Respond

Spec == Init /\ [][Next]_vars

---------------------------------------------------------------------------
(* Properties of the server loop, under Spec *)

\* big-endian 16-bit and 32-bit fields of a datagram, first byte at index i
WireU16(d, i) == d[i] * 256 + d[i + 1]
WireU32(d, i) == WireU16(d, i) * 65536 + WireU16(d, i + 2)

\* C1: whatever datagrams were received, the process has not panicked: a
\* datagram that cannot be decoded or encoded is dropped or answered
C1_NeverPanics == pc # "panicked"

\* the server is through with the scenario query
ScenarioHandled == buf = ScenarioQuery /\ pc \in {"recv", "panicked", "exited"}

\* C2: once the scenario query (id 0x1234, RD, "abc.com" A IN) is handled, a
\* response was sent with id 0x1234, qr=1, rcode NoError, qdcount=1, ancount=1,
\* whose answer ends in ttl 60, length 4 and the data 8.8.8.8
C2_ScenarioAnswered ==
    ScenarioHandled =>
        /\ Len(sent) > 0
        /\ LET r == sent[Len(sent)]
               n == Len(r)
           IN  /\ n >= 22
               /\ WireU16(r, 1) = 4660
               /\ r[3] \div 128 = 1
               /\ r[4] % 16 = 0
               /\ WireU16(r, 5) = 1
               /\ WireU16(r, 7) = 1
               /\ WireU32(r, n - 9) = 60
               /\ SubSeq(r, n - 3, n) = <<8, 8, 8, 8>>

\* the OPCODE field of a query: bits 6-3 of header byte 2
QueryOpcode(d) == (d[3] \div 8) % 16

\* C3: the header DnsHeader::read built carries the query's opcode v, with
\* rcode NoError when v = 0 and NotImplemented when v is in 1..15
C3_OpcodeCopied ==
    pc = "read_question" =>
        /\ message.header.opcode = QueryOpcode(buf)
        /\ message.header.rcode =
              IF QueryOpcode(buf) = 0 THEN "NoError" ELSE "NotImplemented"

\* C9: the header is decoded only from a datagram of 12 bytes or more (a shorter
\* one is an error), and the question is then read from byte offset 12
C9_HeaderTakesTwelveBytes ==
    pc = "read_question" => Len(buf) >= 12 /\ cursor = 12

---------------------------------------------------------------------------
(* The header codec on its own: a header is encoded by                     *)
(* DnsHeader::to_be_bytes and the bytes are decoded by DnsHeader::read     *)
(* into a default header, from a cursor at their start.                    *)

\* the headers encoded: every flag, opcode and rcode, a few ids and counts
Headers ==
    {[id |-> i, qr |-> f[1], opcode |-> o, aa |-> f[2], tc |-> f[3], rd |-> f[4],
      ra |-> f[5], z |-> FALSE, rcode |-> r,
      qdcount |-> c[1], ancount |-> c[2], nscount |-> c[3], arcount |-> c[4]] :
        i \in {0, 4660, 65535}, f \in [1..5 -> BOOLEAN], o \in 0..15,
        r \in ResponseCodes, c \in {<<1, 1, 0, 0>>, <<65535, 256, 255, 0>>}}

InitHeader ==
    /\ pc = "header_new"
    /\ input \in Headers
    /\ buf = <<>>
    /\ cursor = 0
    /\ message = DefaultMessage
    /\ name = <<>>
    /\ out = NoResult
    /\ sent = <<>>
    /\ eofSeeks \in BOOLEAN

HeaderEncode ==
    /\ pc = "header_new"
    /\ buf' = HeaderToBeBytes(input)
    /\ cursor' = 0
    /\ pc' = "header_encoded"
    /\ UNCHANGED <<message, name, input, out, sent, eofSeeks>>

HeaderDecode ==
    /\ pc = "header_encoded"
    /\ LET r == HeaderRead(message.header, buf, cursor, eofSeeks)
       IN  /\ message' = [message EXCEPT !.header = r.header]
           /\ cursor' = r.pos
           /\ pc' = IF r.ok THEN "header_decoded" ELSE "header_error"
    /\ UNCHANGED <<buf, name, input, out, sent, eofSeeks>>

NextHeader == HeaderEncode \/ HeaderDecode

SpecHeader == InitHeader /\ [][NextHeader]_vars

\* C4: decoding the 12 bytes a header was encoded to gives the header back
C4_HeaderRoundTrip == pc = "header_decoded" => message.header = input

\* C5: byte 2 is QR<<7 | OPCODE<<3 | AA<<2 | TC<<1 | RD and byte 3 is
\* RA<<7 | Z<<4 | RCODE: the low four bits of byte 3 are the rcode, bit 7 is RA
C5_FlagBytesPacked ==
    pc = "header_encoded" =>
        /\ buf[3] = BoolAsU8(input.qr) * 128 + input.opcode * 8 + BoolAsU8(input.aa) * 4
                        + BoolAsU8(input.tc) * 2 + BoolAsU8(input.rd)
        /\ buf[4] = BoolAsU8(input.ra) * 128 + BoolAsU8(input.z) * 16
                        + ResponseCodeAsU8(input.rcode)

---------------------------------------------------------------------------
(* The question and answer encoders on names, and the question decoder on  *)
(* what the question encoder produced.                                     *)

MaxLabels == 3

\* label i of a name is made of the letter 'a' + i
Letters(n, c) == [i \in 1..n |-> c]

\* the labels joined by '.'
RECURSIVE Join(_)
Join(ls) ==
    IF Len(ls) = 0 THEN <<>>
    ELSE IF Len(ls) = 1 THEN ls[1]
    ELSE ls[1] \o <<Dot>> \o Join(Tail(ls))

\* label lengths around the limits of 63 bytes (DNS) and 255 bytes (the encoders)
LabelLens == {1, 3, 63, 64, 255, 256}

LabelLists ==
    UNION {{[i \in 1..k |-> Letters(lens[i], 96 + i)] : lens \in [1..k -> LabelLens]} :
              k \in 1..MaxLabels}

InitName ==
    /\ pc = "name_new"
    /\ \E ls \in LabelLists :
          input = [labels |-> ls,
                   question |-> [name |-> Join(ls), type |-> "A", class |-> "IN"],
                   answer |-> [name |-> Join(ls), type |-> "A", class |-> "IN",
                               ttl |-> 60, length |-> 4, data |-> <<8, 8, 8, 8>>]]
    /\ buf = <<>>
    /\ cursor = 0
    /\ message = DefaultMessage
    /\ name = <<>>
    /\ out = [question |-> NoResult, answer |-> NoResult]
    /\ sent = <<>>
    /\ eofSeeks \in BOOLEAN

QuestionEncode ==
    /\ pc = "name_new"
    /\ out' = [out EXCEPT !.question = QuestionToBeBytes(input.question)]
    /\ pc' = "question_encoded"
    /\ UNCHANGED <<buf, cursor, message, name, input, sent, eofSeeks>>

AnswerEncode ==
    /\ pc = "question_encoded"
    /\ out' = [out EXCEPT !.answer = AnswerToBeBytes(input.answer)]
    /\ pc' = "answer_encoded"
    /\ UNCHANGED <<buf, cursor, message, name, input, sent, eofSeeks>>

\* a default question reads the encoded question from a cursor at its start
QuestionDecode ==
    /\ pc = "answer_encoded"
    /\ out.question.status = "Ok"
    /\ buf' = out.question.bytes
    /\ LET r == QuestionRead(message.question, out.question.bytes, 0, eofSeeks)
       IN  /\ message' = [message EXCEPT !.question = r.question]
           /\ cursor' = r.pos
           /\ pc' = IF r.ok THEN "question_decoded" ELSE "question_error"
    /\ UNCHANGED <<name, input, out, sent, eofSeeks>>

NextName == QuestionEncode \/ AnswerEncode \/ QuestionDecode

SpecName == InitName /\ [][NextName]_vars

\* a name on the wire: each label behind its length byte, then a zero byte
RECURSIVE WireName(_)
WireName(ls) ==
    IF Len(ls) = 0 THEN <<0>> ELSE <<Len(ls[1])>> \o ls[1] \o WireName(Tail(ls))

IsPrefix(p, s) == Len(p) <= Len(s) /\ SubSeq(s, 1, Len(p)) = p

LabelsUpTo63 == \A i \in 1..Len(input.labels) : Len(input.labels[i]) <= 63

\* C6: both encoders split the name on every '.': the output of each begins
\* with the k length-prefixed labels of the name, in order, and a zero byte
C6_EveryLabelEncoded ==
    (pc = "answer_encoded" /\ LabelsUpTo63) =>
        /\ out.question.status = "Ok"
        /\ IsPrefix(WireName(input.labels), out.question.bytes)
        /\ out.answer.status = "Ok"
        /\ IsPrefix(WireName(input.labels), out.answer.bytes)

\* C7: reading an encoded question back leaves the question with the name that
\* was encoded and the cursor just after the encoded name, type and class
C7_QuestionRoundTrip ==
    (pc = "question_decoded" /\ LabelsUpTo63) =>
        /\ message.question.name = input.question.name
        /\ cursor = Len(out.question.bytes)

\* C8: of the names of two labels, one with a label of 64 bytes or more is
\* refused with an error by both encoders, neither of which panics, and one
\* whose longest label has exactly 63 bytes is encoded by both
C8_LabelLimit63 ==
    (pc = "answer_encoded" /\ Len(input.labels) = 2) =>
        /\ (\E i \in 1..2 : Len(input.labels[i]) >= 64) =>
              out.question.status = "Err" /\ out.answer.status = "Err"
        /\ (LabelsUpTo63 /\ \E i \in 1..2 : Len(input.labels[i]) = 63) =>
              out.question.status = "Ok" /\ out.answer.status = "Ok"

---------------------------------------------------------------------------
(* DnsQuestion::read, one iteration of its loop at a time, on any buffer   *)
(* and from any cursor position.                                           *)

MaxBufLen == 4

\* length bytes: the terminator, short labels, labels that run past the end,
\* and a compression pointer tag (the top two bits set)
ReadBytes == {0, 1, 2, 5, 192}

ReadBuffers == UNION {[1..n -> ReadBytes] : n \in 0..MaxBufLen}

InitRead ==
    /\ pc = "read_loop"
    /\ buf \in ReadBuffers
    /\ cursor \in 0..(MaxBufLen + 1)
    /\ message = DefaultMessage
    /\ name = <<>>
    /\ input = <<>>
    /\ out = NoResult
    /\ sent = <<>>
    /\ eofSeeks \in BOOLEAN

\* one iteration of the loop: a label is read, or the loop is left
ReadLoop ==
    /\ pc = "read_loop"
    /\ LET s == QuestionReadStep(buf, [pos |-> cursor, name |-> name, done |-> FALSE],
                                 eofSeeks)
       IN  /\ cursor' = s.pos
           /\ name' = s.name
           /\ pc' = IF s.done THEN "read_exit" ELSE "read_loop"
    /\ UNCHANGED <<buf, message, input, out, sent, eofSeeks>>

\* after the loop: type and class are set, the local name is dropped, Ok(())
ReadReturn ==
    /\ pc = "read_exit"
    /\ message' = [message EXCEPT !.question = QuestionReadFinish(@)]
    /\ name' = <<>>
    /\ out' = Ok(<<>>)
    /\ pc' = "read_returned"
    /\ UNCHANGED <<buf, cursor, input, sent, eofSeeks>>

NextRead == ReadLoop \/ ReadReturn

\* the call runs on: a step that can be taken is taken
SpecRead == InitRead /\ [][NextRead]_vars /\ WF_vars(NextRead)

\* the length byte the next iteration reads, 0 for a read past the end
NextLen == UnwrapOr0(read_u8(buf, cursor, eofSeeks))

\* C10: DnsQuestion::read returns Ok from every buffer and cursor position: an
\* iteration that reads a non-zero length moves the cursor forward, an
\* iteration that reads at or past the end of the buffer leaves the loop, and
\* the call returns Ok
C10_ReadTerminates ==
    /\ [][(pc = "read_loop" /\ NextLen # 0) => cursor' > cursor]_vars
    /\ [][(pc = "read_loop" /\ cursor >= Len(buf)) => pc' = "read_exit"]_vars
    /\ <>(pc = "read_returned" /\ out.status = "Ok")

\* the loop was left by a read past the end, after a pointer-tagged length byte
\* whose label ran over the end of the buffer
C10_PointerRunsPastEnd ==
    /\ pc = "read_exit"
    /\ cursor > Len(buf)
    /\ \E i \in 1..Len(buf) : buf[i] = 192
    /\ Len(name) > 192

===========================================================================
